---- MODULE Spec2Model ----
(***************************************************************************)
(* A model of autotrigger.py: the VMF tokenizer / recursive block parser,  *)
(* the block serializer, the face geometry used by the trigger generator,  *)
(* the brush extrusion and the orchestrator loop of main().                *)
(*                                                                         *)
(* Text is a sequence of one-character strings; a token and a key are      *)
(* sequences of characters.  A Python dict is a sequence of entries        *)
(* [k, v] in insertion order with distinct keys; a value is a record       *)
(* [t, v] with t = "str" (v a character sequence), t = "dict" (v a dict)   *)
(* or t = "list" (v a sequence of values).                                 *)
(***************************************************************************)
EXTENDS Integers, Sequences, FiniteSets, TLC

VARIABLES
    \* ---- VMFParser.parse / parse_block and the serializer round trip ----
    tokens,     \* the token list handed to parse_block (tokenize's result)
    pos,        \* index of the next token the iterator will yield
    stack,      \* the active parse_block invocations, outermost first
    ppc,        \* "parse", "parsed", "written", "reparsed", or "idle"
    data,       \* the mapping returned by the top-level parse_block
    warnings,   \* number of "Unexpected '{' without key" warnings logged
    text,       \* what write_vmf_block wrote
    data2,      \* the mapping parsed back from text
    \* ---- create_trigger_brush_simple, statement by statement ----
    base_vertices,  \* the caller's list
    normal,         \* the unit normal passed in
    height,         \* the extrusion height
    top_vertices,   \* the local list of translated vertices
    faces,          \* the local list of faces
    bi,             \* the loop variable i of the side-face loop
    bpc,            \* "check", "top", "bottom", "cap", "sides", "returned", or "idle"
    result,         \* the returned value: <<>> is None, <<faces>> a list
    \* ---- main(): the parsed document, the surface loop, the output ----
    solids,         \* parser.solids: the Solid objects, world solids first
    versioninfo,    \* parser.versioninfo
    world,          \* parser.world
    entities,       \* parser.entities
    cameras,        \* parser.cameras
    trigger_height, \* the height read from the user
    mpc,            \* position in main()
    si,             \* index of the solid the outer loop is at
    fi,             \* index of the side the inner loop is at
    solid_id_counter,
    face_id_counter,
    new_triggers,   \* the trigger entities created so far
    triggered_materials,
    surface_stats,
    outfile,        \* generated_triggers.vmf: None, or <<its content>>
    wi,             \* index of the next write of the output block
    \* ---- calls of the functions num, Vertex.__eq__ / __hash__ and of the
    \* ---- Side methods compute_normal / get_surface_type ----
    arg,            \* the arguments of the call
    ret,            \* what the call has returned or raised so far
    cpc             \* position in the call, or "idle"

parserVars == <<tokens, pos, stack, ppc, data, warnings, text, data2>>
brushVars == <<base_vertices, normal, height, top_vertices, faces, bi, bpc, result>>
docVars == <<solids, versioninfo, world, entities, cameras, trigger_height>>
loopVars == <<si, fi, solid_id_counter, face_id_counter, new_triggers,
              triggered_materials, surface_stats>>
fileVars == <<outfile, wi>>
mainVars == <<docVars, loopVars, fileVars, mpc>>

callVars == <<arg, ret, cpc>>

vars == <<parserVars, brushVars, mainVars, callVars>>

----------------------------------------------------------------------------
(* Bounds *)

MaxTokens == 6
MaxVerts == 4
MaxSolids == 3
MaxDocSolids == 2
MaxSlope == 4
MaxText == 4

----------------------------------------------------------------------------
(* Characters and tokens *)

Quote == "\""
Whitespace == {" ", "\n", "\t"}
LBrace == <<"{">>
RBrace == <<"}">>

\* The token alphabet the inputs are drawn from: the two braces, a quoted
\* one-letter token, a quoted token with inner whitespace and a bare word.
TokenSet ==
    { LBrace, RBrace,
      <<Quote, "a", Quote>>,
      <<Quote, "a", " ", "b", Quote>>,
      <<"b">> }

RECURSIVE SeqsUpTo(_, _)
SeqsUpTo(S, n) ==
    IF n = 0 THEN { <<>> }
    ELSE LET shorter == SeqsUpTo(S, n - 1)
         IN  shorter \cup { Append(s, x) : s \in { q \in shorter : Len(q) = n - 1 }, x \in S }

----------------------------------------------------------------------------
(* Values *)

Str(s)   == [t |-> "str",  v |-> s]
Dict(d)  == [t |-> "dict", v |-> d]
List(l)  == [t |-> "list", v |-> l]

HasKey(d, k) == \E i \in DOMAIN d : d[i].k = k
IndexOf(d, k) == CHOOSE i \in DOMAIN d : d[i].k = k
Lookup(d, k) == d[IndexOf(d, k)].v

\* Python's == on dicts (insertion order is ignored), lists and strings.
RECURSIVE ValueEq(_, _)
RECURSIVE DictEq(_, _)
ValueEq(x, y) ==
    /\ x.t = y.t
    /\ IF x.t = "str" THEN x.v = y.v
       ELSE IF x.t = "dict" THEN DictEq(x.v, y.v)
       ELSE /\ Len(x.v) = Len(y.v)
            /\ \A i \in DOMAIN x.v : ValueEq(x.v[i], y.v[i])
DictEq(d, e) ==
    /\ Len(d) = Len(e)
    /\ \A i \in DOMAIN d : HasKey(e, d[i].k) /\ ValueEq(d[i].v, Lookup(e, d[i].k))

----------------------------------------------------------------------------
(* VMFParser.tokenize *)

\* Index of the first quote character after position i, or 0.
RECURSIVE CloseQuote(_, _)
CloseQuote(s, i) ==
    IF i + 1 > Len(s) THEN 0
    ELSE IF s[i + 1] = Quote THEN i + 1
    ELSE CloseQuote(s, i + 1)

IsBareChar(c) == c \notin Whitespace \cup {"{", "}", Quote}

\* Last index of the run of bare-word characters that starts at i.
RECURSIVE BareEnd(_, _)
BareEnd(s, i) ==
    IF i + 1 <= Len(s) /\ IsBareChar(s[i + 1]) THEN BareEnd(s, i + 1) ELSE i

\* re.findall(r'"[^"]*"|[^\s{}"]+|[{}]', content), scanning from index i.
RECURSIVE FindAll(_, _)
FindAll(s, i) ==
    IF i > Len(s) THEN <<>>
    ELSE IF s[i] = Quote /\ CloseQuote(s, i) # 0
         THEN <<SubSeq(s, i, CloseQuote(s, i))>> \o FindAll(s, CloseQuote(s, i) + 1)
    ELSE IF IsBareChar(s[i])
         THEN <<SubSeq(s, i, BareEnd(s, i))>> \o FindAll(s, BareEnd(s, i) + 1)
    ELSE IF s[i] \in {"{", "}"}
         THEN <<<<s[i]>>>> \o FindAll(s, i + 1)
    ELSE FindAll(s, i + 1)

\* str.strip(): drop leading and trailing whitespace.
RECURSIVE LStrip(_, _)
LStrip(s, cs) == IF s # <<>> /\ Head(s) \in cs THEN LStrip(Tail(s), cs) ELSE s
RECURSIVE RStrip(_, _)
RStrip(s, cs) ==
    IF s # <<>> /\ s[Len(s)] \in cs THEN RStrip(SubSeq(s, 1, Len(s) - 1), cs) ELSE s
Strip(s, cs) == RStrip(LStrip(s, cs), cs)

tokenize(content) ==
    LET found == FindAll(content, 1)
        kept  == SelectSeq(found, LAMBDA tk : Strip(tk, Whitespace) # <<>>)
    IN  [i \in DOMAIN kept |-> Strip(kept[i], Whitespace)]

----------------------------------------------------------------------------
(* VMFParser.parse_block *)

\* The pending-key slot: <<>> is None, <<k>> is the key k.
NoKey == <<>>

\* One invocation of parse_block: its dict, its pending key, and the
\* bindings (key, value) it has made so far, in the order it made them.
NewFrame == [data |-> <<>>, key |-> NoKey, bound |-> <<>>]

\* if key in data: (wrap a non-list, append) else: data[key] = value
BindOverwrite(d, k, v) ==
    IF HasKey(d, k) THEN [d EXCEPT ![IndexOf(d, k)].v = v]
    ELSE Append(d, [k |-> k, v |-> v])
Bind(d, k, v) ==
    IF HasKey(d, k)
    THEN [d EXCEPT ![IndexOf(d, k)].v =
              IF @.t = "list" THEN List(Append(@.v, v)) ELSE List(<<@, v>>)]
    ELSE Append(d, [k |-> k, v |-> v])

\* The frame after binding value v to its pending key and clearing the slot.
BindPending(fr, v) ==
    [data  |-> Bind(fr.data, fr.key[1], v),
     key   |-> NoKey,
     bound |-> Append(fr.bound, <<fr.key[1], v>>)]

\* The stack after the innermost invocation returns its dict to its caller.
ReturnToCaller(st) ==
    LET n == Len(st)
    IN  Append(SubSeq(st, 1, n - 2), BindPending(st[n - 1], Dict(st[n].data)))

\* One iteration of the while loop of the innermost invocation on token tk.
\* The parser state is [stack, done, data, warnings].
ParseToken(ps, tk) ==
    LET n   == Len(ps.stack)
        top == ps.stack[n]
    IN  IF tk = RBrace
        THEN IF n = 1
             THEN [ps EXCEPT !.done = TRUE, !.data = top.data]
             ELSE [ps EXCEPT !.stack = ReturnToCaller(ps.stack)]
        ELSE IF tk = LBrace
        THEN IF top.key = NoKey
             THEN [ps EXCEPT !.warnings = @ + 1]
             ELSE [ps EXCEPT !.stack = Append(@, NewFrame)]
        ELSE IF Head(tk) = Quote
        THEN IF top.key = NoKey
             THEN [ps EXCEPT !.stack[n].key = <<Strip(tk, {Quote})>>]
             ELSE [ps EXCEPT !.stack[n] = BindPending(top, Str(Strip(tk, {Quote})))]
        ELSE IF top.key = NoKey
             THEN [ps EXCEPT !.stack[n].key = <<tk>>]
             ELSE [ps EXCEPT !.stack[n] = BindPending(top, Str(tk))]

\* StopIteration: every active invocation breaks out of its loop and returns
\* its dict; each caller binds it and meets StopIteration in turn.
RECURSIVE Unwind(_)
Unwind(st) == IF Len(st) = 1 THEN st ELSE Unwind(ReturnToCaller(st))

StopIteration(ps) ==
    [ps EXCEPT !.done = TRUE, !.stack = Unwind(ps.stack), !.data = Unwind(ps.stack)[1].data]

ParserStart == [stack |-> <<NewFrame>>, done |-> FALSE, data |-> <<>>, warnings |-> 0]

\* parse_block(iter(toks)) run to completion, from parser state ps at index i.
RECURSIVE RunFrom(_, _, _)
RunFrom(ps, toks, i) ==
    IF ps.done THEN ps
    ELSE IF i > Len(toks) THEN StopIteration(ps)
    ELSE RunFrom(ParseToken(ps, toks[i]), toks, i + 1)

parse_block(toks) == RunFrom(ParserStart, toks, 1).data

----------------------------------------------------------------------------
(* write_vmf_block *)

RECURSIVE Tabs(_)
Tabs(n) == IF n = 0 THEN <<>> ELSE <<"\t">> \o Tabs(n - 1)

\* f.write(f'{ind}\t"{key}" "{value}"\n')
KeyValueLine(indent, key, value) ==
    Tabs(indent) \o <<"\t", Quote>> \o key \o <<Quote, " ", Quote>> \o value \o <<Quote, "\n">>

RECURSIVE write_vmf_block(_, _, _)
RECURSIVE WriteItems(_, _, _)
RECURSIVE WriteListItems(_, _, _, _)
write_vmf_block(name, content, indent) ==
    Tabs(indent) \o name \o <<"\n">> \o Tabs(indent) \o <<"{", "\n">>
    \o WriteItems(content, 1, indent)
    \o Tabs(indent) \o <<"}", "\n">>
\* for key, value in content.items(), from the i-th entry on
WriteItems(content, i, indent) ==
    IF i > Len(content) THEN <<>>
    ELSE LET key   == content[i].k
             value == content[i].v
             this  == IF value.t = "dict" THEN write_vmf_block(key, value.v, indent + 1)
                      ELSE IF value.t = "list" THEN WriteListItems(key, value.v, 1, indent)
                      ELSE KeyValueLine(indent, key, value.v)
         IN  this \o WriteItems(content, i + 1, indent)
\* for item in value, from the j-th item on
WriteListItems(key, items, j, indent) ==
    IF j > Len(items) THEN <<>>
    ELSE LET item == items[j]
             this == IF item.t = "dict" THEN write_vmf_block(key, item.v, indent + 1)
                     ELSE KeyValueLine(indent, key, item.v)
         IN  this \o WriteListItems(key, items, j + 1, indent)

\* The block name the round trip writes the parsed tree under.
RootName == <<"w">>

----------------------------------------------------------------------------
(* The parts of the state a specification does not use *)

IdleParser ==
    /\ tokens = <<>> /\ pos = 1 /\ stack = <<>> /\ ppc = "idle"
    /\ data = <<>> /\ warnings = 0 /\ text = <<>> /\ data2 = <<>>

IdleBrush ==
    /\ base_vertices = <<>> /\ normal = <<>> /\ height = 0 /\ top_vertices = <<>>
    /\ faces = <<>> /\ bi = 0 /\ bpc = "idle" /\ result = <<>>

IdleMain ==
    /\ solids = <<>> /\ versioninfo = <<>> /\ world = <<>> /\ entities = <<>>
    /\ cameras = <<>> /\ trigger_height = 0 /\ mpc = "idle" /\ si = 0 /\ fi = 0
    /\ solid_id_counter = 0 /\ face_id_counter = 0 /\ new_triggers = <<>>
    /\ triggered_materials = {} /\ surface_stats = <<>> /\ outfile = <<>> /\ wi = 0

IdleCall == arg = <<>> /\ ret = <<>> /\ cpc = "idle"

----------------------------------------------------------------------------
(* The parser as a state machine: one action per branch of the loop *)

ParserState == [stack |-> stack, done |-> FALSE, data |-> data, warnings |-> warnings]

Apply(ps) ==
    /\ stack' = ps.stack
    /\ data' = ps.data
    /\ warnings' = ps.warnings
    /\ ppc' = IF ps.done THEN "parsed" ELSE "parse"

InitParser ==
    /\ tokens \in { s \in SeqsUpTo(TokenSet, MaxTokens) : s # <<>> }
    /\ pos = 1
    /\ stack = <<NewFrame>>
    /\ ppc = "parse"
    /\ data = <<>>
    /\ warnings = 0
    /\ text = <<>>
    /\ data2 = <<>>
    /\ IdleBrush
    /\ IdleMain
    /\ IdleCall

\* token == '}'
CloseBrace ==
    /\ ppc = "parse" /\ pos <= Len(tokens) /\ tokens[pos] = RBrace
    /\ Apply(ParseToken(ParserState, tokens[pos]))
    /\ pos' = pos + 1
    /\ UNCHANGED <<tokens, text, data2>>
    /\ UNCHANGED <<brushVars, mainVars, callVars>>

\* token == '{'
OpenBrace ==
    /\ ppc = "parse" /\ pos <= Len(tokens) /\ tokens[pos] = LBrace
    /\ Apply(ParseToken(ParserState, tokens[pos]))
    /\ pos' = pos + 1
    /\ UNCHANGED <<tokens, text, data2>>
    /\ UNCHANGED <<brushVars, mainVars, callVars>>

\* token.startswith('"')
QuotedToken ==
    /\ ppc = "parse" /\ pos <= Len(tokens)
    /\ tokens[pos] \notin {LBrace, RBrace} /\ Head(tokens[pos]) = Quote
    /\ Apply(ParseToken(ParserState, tokens[pos]))
    /\ pos' = pos + 1
    /\ UNCHANGED <<tokens, text, data2>>
    /\ UNCHANGED <<brushVars, mainVars, callVars>>

\* any other token
BareToken ==
    /\ ppc = "parse" /\ pos <= Len(tokens)
    /\ tokens[pos] \notin {LBrace, RBrace} /\ Head(tokens[pos]) # Quote
    /\ Apply(ParseToken(ParserState, tokens[pos]))
    /\ pos' = pos + 1
    /\ UNCHANGED <<tokens, text, data2>>
    /\ UNCHANGED <<brushVars, mainVars, callVars>>

\* next(tokens) raises StopIteration
EndOfTokens ==
    /\ ppc = "parse" /\ pos > Len(tokens)
    /\ Apply(StopIteration(ParserState))
    /\ UNCHANGED <<tokens, pos, text, data2>>
    /\ UNCHANGED <<brushVars, mainVars, callVars>>

\* write_vmf_block(f, name, data)
Serialize ==
    /\ ppc = "parsed"
    /\ text' = write_vmf_block(RootName, data, 0)
    /\ ppc' = "written"
    /\ UNCHANGED <<tokens, pos, stack, data, warnings, data2>>
    /\ UNCHANGED <<brushVars, mainVars, callVars>>

\* parse_block(iter(tokenize(text)))
Reparse ==
    /\ ppc = "written"
    /\ data2' = parse_block(tokenize(text))
    /\ ppc' = "reparsed"
    /\ UNCHANGED <<tokens, pos, stack, data, warnings, text>>
    /\ UNCHANGED <<brushVars, mainVars, callVars>>

NextParser ==
    \/ CloseBrace
    \/ OpenBrace
    \/ QuotedToken
    \/ BareToken
    \/ EndOfTokens
    \/ Serialize
    \/ Reparse

SpecParser == InitParser /\ [][NextParser]_vars

----------------------------------------------------------------------------
(* Properties of the parser and the serializer *)

\* The parser state after the first m tokens of toks (no StopIteration).
RECURSIVE AfterTokens(_, _, _)
AfterTokens(ps, toks, m) ==
    IF m = 0 \/ ps.done THEN ps
    ELSE AfterTokens(ParseToken(ps, Head(toks)), Tail(toks), m - 1)

PendingKeyBefore(toks, i) ==
    LET ps == AfterTokens(ParserStart, toks, i - 1)
    IN  [done |-> ps.done, depth |-> Len(ps.stack), key |-> ps.stack[Len(ps.stack)].key]

\* Index of the '}' that matches the '{' at index i, or 0 if there is none.
RECURSIVE MatchFrom(_, _, _)
MatchFrom(toks, j, depth) ==
    IF j > Len(toks) THEN 0
    ELSE IF toks[j] = LBrace THEN MatchFrom(toks, j + 1, depth + 1)
    ELSE IF toks[j] = RBrace
         THEN IF depth = 1 THEN j ELSE MatchFrom(toks, j + 1, depth - 1)
    ELSE MatchFrom(toks, j + 1, depth)
MatchingClose(toks, i) == MatchFrom(toks, i + 1, 1)

\* toks without the tokens at indexes i..j.
Without(toks, i, j) == SubSeq(toks, 1, i - 1) \o SubSeq(toks, j + 1, Len(toks))

\* The values bound to key k in a frame's binding history, in binding order.
BoundTo(bound, k) ==
    LET hits == SelectSeq(bound, LAMBDA b : b[1] = k)
    IN  [i \in DOMAIN hits |-> hits[i][2]]
BoundKeys(bound) == { bound[i][1] : i \in DOMAIN bound }

\* C1: round trip. Writing the parsed tree with write_vmf_block under a block
\* name, tokenizing the text and parsing it again gives a mapping that holds
\* exactly that block name, bound to a mapping equal to the original tree.
C1_RoundTrip ==
    ppc = "reparsed" => DictEq(data2, <<[k |-> RootName, v |-> Dict(data)]>>)

\* C2: folding. In the dict of every parse_block invocation, the keys are
\* exactly the keys it has bound; a key bound k >= 2 times maps to the list
\* of its k values in binding order, and a key bound once maps to the bare
\* value (a string or a nested dict), never to a list.
FoldedAsBound(fr) ==
    /\ { fr.data[i].k : i \in DOMAIN fr.data } = BoundKeys(fr.bound)
    /\ \A k \in BoundKeys(fr.bound) :
          LET vals == BoundTo(fr.bound, k)
              got  == Lookup(fr.data, k)
          IN  IF Len(vals) = 1
              THEN got.t # "list" /\ ValueEq(got, vals[1])
              ELSE ValueEq(got, List(vals))
C2_FoldInvariant ==
    /\ ppc \in {"parse", "parsed"} => \A d \in DOMAIN stack : FoldedAsBound(stack[d])
    /\ ppc = "parsed" => data = stack[1].data

\* C2 witness: an invocation that has bound one key twice, with another
\* binding in between, and another key once.
C2_Witness ==
    \E d \in DOMAIN stack :
        LET b == stack[d].bound
        IN  /\ Len(b) >= 3
            /\ b[1][1] = b[3][1]
            /\ b[2][1] # b[1][1]
            /\ Lookup(stack[d].data, b[1][1]).t = "list"

\* C3: a '{' met while no key is pending discards its block. For every such
\* '{' that has a matching '}', the mapping parse_block returns equals the one
\* it returns for the token stream without that block: no pair of the block
\* is bound, and the pairs after the block are bound as they would be
\* without it.
C3_UnkeyedBlockDiscarded ==
    ppc = "parsed" =>
        \A i \in DOMAIN tokens :
            LET before == PendingKeyBefore(tokens, i)
                j      == MatchingClose(tokens, i)
            IN  (tokens[i] = LBrace /\ ~before.done /\ before.key = NoKey /\ j # 0)
                    => DictEq(data, parse_block(Without(tokens, i, j)))

\* C4: an unmatched '}' met by the top-level parse_block is skipped. The
\* mapping returned equals the one returned for the token stream without
\* that '}', so everything that follows it is still bound at the top level.
C4_UnmatchedCloseSkipped ==
    ppc = "parsed" =>
        \A i \in DOMAIN tokens :
            LET before == PendingKeyBefore(tokens, i)
            IN  (tokens[i] = RBrace /\ ~before.done /\ before.depth = 1)
                    => DictEq(data, parse_block(Without(tokens, i, i)))

----------------------------------------------------------------------------
(* Vertex: vector algebra *)

\* Coordinates are integers. A unit vector, the result of normalize(), is
\* a record [x, y, z, q] that stands for (x, y, z) / sqrt(q) with
\* q = x*x + y*y + z*z, so that every comparison the code makes on a
\* normalized vector is decided exactly.
Vertex(x, y, z) == [x |-> x, y |-> y, z |-> z]

VSub(a, b) == Vertex(a.x - b.x, a.y - b.y, a.z - b.z)
VAdd(a, b) == Vertex(a.x + b.x, a.y + b.y, a.z + b.z)
Cross(a, b) ==
    Vertex(a.y * b.z - a.z * b.y, a.z * b.x - a.x * b.z, a.x * b.y - a.y * b.x)
Dot(a, b) == a.x * b.x + a.y * b.y + a.z * b.z

Isqrt(n) == CHOOSE r \in 0..n : r * r <= n /\ n < (r + 1) * (r + 1)

\* normalize(): a vector of magnitude below 1e-10 (on integers: the zero
\* vector) gives Vertex(0, 0, 1).
normalize(v) ==
    IF Dot(v, v) = 0 THEN [x |-> 0, y |-> 0, z |-> 1, q |-> 1]
    ELSE [x |-> v.x, y |-> v.y, z |-> v.z, q |-> Dot(v, v)]

\* unit.scale(-1)
Negated(u) == [x |-> 0 - u.x, y |-> 0 - u.y, z |-> 0 - u.z, q |-> u.q]

\* unit.scale(h) as a vertex; exact when sqrt(q) is an integer that divides
\* h times each component, which holds for the unit vectors and heights the
\* specifications draw.
UnitScale(u, h) ==
    LET m == Isqrt(u.q)
    IN  Vertex((u.x * h) \div m, (u.y * h) \div m, (u.z * h) \div m)

----------------------------------------------------------------------------
(* create_trigger_brush_simple *)

\* list(reversed(base_vertices))
Reversed(s) == [i \in 1..Len(s) |-> s[Len(s) + 1 - i]]

\* [v + normal.scale(height) for v in base_vertices]
TopVertices(base, n, h) == [i \in 1..Len(base) |-> VAdd(base[i], UnitScale(n, h))]

\* num_verts = len(base_vertices)
NumVertsOpen(base) == Len(base) - 1
NumVerts(base) == Len(base)

\* The side face of edge i (1-based here, 0-based in the code).
SideFaceTopSwapped(base, top, i) ==
    LET next_i == (i % Len(base)) + 1
    IN  <<base[i], base[next_i], top[i], top[next_i]>>
SideFace(base, top, i) ==
    LET next_i == (i % Len(base)) + 1
    IN  <<base[i], base[next_i], top[next_i], top[i]>>

\* The whole function: <<>> is None, <<faces>> the list of faces.
create_trigger_brush_simple(base, n, h) ==
    IF Len(base) < 3 THEN <<>>
    ELSE LET top == TopVertices(base, n, h)
         IN  << <<Reversed(base), top>>
                \o [i \in 1..NumVerts(base) |-> SideFace(base, top, i)] >>

\* Inputs of the brush specification.
PointSet == { Vertex(0, 0, 0), Vertex(2, 0, 0), Vertex(0, 2, 1) }
NormalSet ==
    { [x |-> 0, y |-> 0, z |-> 1, q |-> 1],
      [x |-> 0, y |-> 0, z |-> 0 - 8, q |-> 64],
      [x |-> 12, y |-> 0, z |-> 16, q |-> 400] }
HeightSet == { 5, 10 }

InitBrush ==
    /\ base_vertices \in SeqsUpTo(PointSet, MaxVerts)
    /\ normal \in NormalSet
    /\ height \in HeightSet
    /\ top_vertices = <<>>
    /\ faces = <<>>
    /\ bi = 0
    /\ bpc = "check"
    /\ result = <<>>
    /\ IdleParser
    /\ IdleMain
    /\ IdleCall

\* if len(base_vertices) < 3: return None
BrushReturnNone ==
    /\ bpc = "check" /\ Len(base_vertices) < 3
    /\ result' = <<>>
    /\ bpc' = "returned"
    /\ UNCHANGED <<base_vertices, normal, height, top_vertices, faces, bi>>
    /\ UNCHANGED <<parserVars, mainVars, callVars>>

\* top_vertices = [...]; faces = []
BrushTopVertices ==
    /\ bpc = "check" /\ Len(base_vertices) >= 3
    /\ top_vertices' = TopVertices(base_vertices, normal, height)
    /\ faces' = <<>>
    /\ bpc' = "bottom"
    /\ UNCHANGED <<base_vertices, normal, height, bi, result>>
    /\ UNCHANGED <<parserVars, mainVars, callVars>>

\* faces.append(list(reversed(base_vertices)))
BrushBottomFace ==
    /\ bpc = "bottom"
    /\ faces' = Append(faces, Reversed(base_vertices))
    /\ bpc' = "cap"
    /\ UNCHANGED <<base_vertices, normal, height, top_vertices, bi, result>>
    /\ UNCHANGED <<parserVars, mainVars, callVars>>

\* faces.append(top_vertices); num_verts = len(base_vertices); i = 0
BrushTopFace ==
    /\ bpc = "cap"
    /\ faces' = Append(faces, top_vertices)
    /\ bi' = 1
    /\ bpc' = "sides"
    /\ UNCHANGED <<base_vertices, normal, height, top_vertices, result>>
    /\ UNCHANGED <<parserVars, mainVars, callVars>>

\* one iteration of for i in range(num_verts)
BrushSideFace ==
    /\ bpc = "sides" /\ bi <= NumVerts(base_vertices)
    /\ faces' = Append(faces, SideFace(base_vertices, top_vertices, bi))
    /\ bi' = bi + 1
    /\ UNCHANGED <<base_vertices, normal, height, top_vertices, bpc, result>>
    /\ UNCHANGED <<parserVars, mainVars, callVars>>

\* return faces
BrushReturn ==
    /\ bpc = "sides" /\ bi > NumVerts(base_vertices)
    /\ result' = <<faces>>
    /\ bpc' = "returned"
    /\ UNCHANGED <<base_vertices, normal, height, top_vertices, faces, bi>>
    /\ UNCHANGED <<parserVars, mainVars, callVars>>

NextBrush ==
    \/ BrushReturnNone
    \/ BrushTopVertices
    \/ BrushBottomFace
    \/ BrushTopFace
    \/ BrushSideFace
    \/ BrushReturn

SpecBrush == InitBrush /\ [][NextBrush]_vars

----------------------------------------------------------------------------
(* Properties of the extrusion *)

\* C6: extrusion closure. For a base polygon of n >= 3 vertices (the height
\* is positive), create_trigger_brush_simple returns a list of exactly n + 2
\* faces, a bottom and a top of n vertices each and n sides, and every face
\* has at least 3 vertices.
C6_ExtrusionClosure ==
    (bpc = "returned" /\ Len(base_vertices) >= 3 /\ height > 0) =>
        /\ result # <<>>
        /\ Len(result[1]) = Len(base_vertices) + 2
        /\ Len(result[1][1]) = Len(base_vertices)
        /\ Len(result[1][2]) = Len(base_vertices)
        /\ \A f \in DOMAIN result[1] : Len(result[1][f]) >= 3

\* C6 witness: a quadrilateral has been extruded.
C6_Witness ==
    bpc = "returned" /\ Len(base_vertices) = 4 /\ result # <<>> /\ Len(result[1]) = 6

\* C7: face order and shape. For a base polygon b of n >= 3 vertices the
\* list returned holds first b reversed, then the top face b[i] + normal *
\* height in the order of b, then for each i the quad <b[i], b[i+1 mod n],
\* top[i+1 mod n], top[i]>; and no step of the function changes the list b.
C7_Shape ==
    (bpc = "returned" /\ Len(base_vertices) >= 3) =>
        LET b == base_vertices
            n == Len(b)
            f == result[1]
            nx(i) == IF i = n THEN 1 ELSE i + 1
        IN  /\ result # <<>>
            /\ Len(f) = n + 2
            /\ f[1] = [i \in 1..n |-> b[n + 1 - i]]
            /\ f[2] = [i \in 1..n |-> VAdd(b[i], UnitScale(normal, height))]
            /\ \A i \in 1..n : f[2 + i] = <<b[i], b[nx(i)], f[2][nx(i)], f[2][i]>>
C7_FaceOrder == []C7_Shape /\ [][base_vertices' = base_vertices]_vars

\* C7 witness: a quadrilateral has been extruded along a slanted normal.
C7_Witness ==
    /\ bpc = "returned" /\ Len(base_vertices) = 4 /\ result # <<>>
    /\ normal.x # 0
    /\ result[1][2][1] # base_vertices[1]

----------------------------------------------------------------------------
(* Side and Solid: face geometry *)

\* An optional value: <<>> is None, <<v>> is the value v.
None == <<>>
Some(v) == <<v>>

\* A Side is [id, plane, vertices_plus, material]: id and material are
\* optional strings, plane holds 0 or 3 vertices. A Solid is [id, sides];
\* a side's parent_solid is the solid that holds it.

\* Side.get_vertices
get_vertices(side) ==
    IF side.vertices_plus # <<>> THEN side.vertices_plus
    ELSE IF Len(side.plane) >= 3 THEN SubSeq(side.plane, 1, 3) ELSE <<>>

\* points_to_use in Side.compute_normal
PointsToUse(side) ==
    IF Len(side.vertices_plus) >= 3 THEN side.vertices_plus ELSE side.plane

RECURSIVE SumVertices(_)
SumVertices(vs) ==
    IF vs = <<>> THEN Vertex(0, 0, 0) ELSE VAdd(Head(vs), SumVertices(Tail(vs)))

\* A centre, the mean of n > 0 vertices, is kept as [sum, n]; None if n = 0.
MeanOf(vs) == IF vs = <<>> THEN None ELSE Some([sum |-> SumVertices(vs), n |-> Len(vs)])

\* Side.get_face_center
get_face_center(side) == MeanOf(get_vertices(side))

RECURSIVE AllVertices(_)
AllVertices(sides) ==
    IF sides = <<>> THEN <<>> ELSE get_vertices(Head(sides)) \o AllVertices(Tail(sides))

\* Solid.get_approximate_center
get_approximate_center(solid) == MeanOf(AllVertices(solid.sides))

\* Newell's method over the cyclic loop, from index i on.
RECURSIVE Newell(_, _)
Newell(pts, i) ==
    IF i > Len(pts) THEN Vertex(0, 0, 0)
    ELSE LET v1 == pts[i]
             v2 == pts[(i % Len(pts)) + 1]
         IN  VAdd(Vertex((v1.y - v2.y) * (v1.z + v2.z),
                         (v1.z - v2.z) * (v1.x + v2.x),
                         (v1.x - v2.x) * (v1.y + v2.y)),
                  Newell(pts, i + 1))

\* normal.dot(face_center - solid_center) < -0.1, for a unit normal u and
\* the centres fc = Sf / nf and sc = Sa / na: with
\* d = (x, y, z) . (na * Sf - nf * Sa) the dot product is
\* d / (nf * na * sqrt(q)).
PointsInward(u, fc, sc) ==
    LET w == VSub(Vertex(sc.n * fc.sum.x, sc.n * fc.sum.y, sc.n * fc.sum.z),
                  Vertex(fc.n * sc.sum.x, fc.n * sc.sum.y, fc.n * sc.sum.z))
        d == Dot(Vertex(u.x, u.y, u.z), w)
    IN  d < 0 /\ 100 * d * d > fc.n * fc.n * sc.n * sc.n * u.q

\* Side.compute_normal: None, or the unit normal.
compute_normal(side, parent) ==
    LET pts == PointsToUse(side)
    IN  IF Len(pts) < 3 THEN None
        ELSE LET raw == IF Len(pts) = 3
                        THEN normalize(Cross(VSub(pts[2], pts[1]), VSub(pts[3], pts[1])))
                        ELSE normalize(Newell(pts, 1))
                 fc  == get_face_center(side)
                 sc  == get_approximate_center(parent)
             IN  IF fc # None /\ sc # None /\ PointsInward(raw, fc[1], sc[1])
                 THEN Some(Negated(raw))
                 ELSE Some(raw)

\* abs(vec_to_v.dot(normal)) > tolerance, for the unit normal u
FartherThan(vec, u, tolerance) ==
    LET d == Dot(vec, Vertex(u.x, u.y, u.z))
    IN  d * d > tolerance * tolerance * u.q

\* Side.is_planar(tolerance)
is_planar(side, parent, tolerance) ==
    LET vertices == get_vertices(side)
        n        == compute_normal(side, parent)
    IN  IF Len(vertices) <= 3 THEN TRUE
        ELSE IF n = None THEN FALSE
        ELSE \A i \in 4..Len(vertices) :
                 ~FartherThan(VSub(vertices[i], vertices[1]), n[1], tolerance)

\* abs(normal.z) > 0.01
ZAbove001(u) == 10000 * u.z * u.z > u.q

\* Side.is_surfable
is_surfable(side, parent) ==
    LET n == compute_normal(side, parent)
    IN  IF n = None THEN FALSE ELSE ZAbove001(n[1])

\* z >= num / 1000 for z = abs(normal.z)
ZAtLeastSigned(u, num) == u.z >= 0 /\ 1000000 * u.z * u.z >= num * num * u.q
ZAtLeast(u, num) == 1000000 * u.z * u.z >= num * num * u.q

\* Side.get_surface_type
get_surface_type(side, parent) ==
    LET n == compute_normal(side, parent)
    IN  IF n = None THEN "unknown"
        ELSE LET u == n[1]
             IN  IF 10000 * u.z * u.z < u.q THEN "wall"
                 ELSE IF ZAtLeast(u, 985) THEN (IF u.z > 0 THEN "floor" ELSE "ceiling")
                 ELSE IF ZAtLeast(u, 700)
                      THEN (IF u.z > 0 THEN "steep_slope" ELSE "steep_ceiling_slope")
                 ELSE IF ZAtLeast(u, 300) THEN (IF u.z > 0 THEN "ramp" ELSE "ceiling_ramp")
                 ELSE (IF u.z > 0 THEN "gentle_slope" ELSE "gentle_ceiling_slope")

----------------------------------------------------------------------------
(* Numbers as text *)

Digits == <<"0", "1", "2", "3", "4", "5", "6", "7", "8", "9">>

\* str(n) for an integer n
RECURSIVE NatToStr(_)
NatToStr(n) == IF n < 10 THEN <<Digits[n + 1]>> ELSE Append(NatToStr(n \div 10), Digits[(n % 10) + 1])
IntToStr(n) == IF n < 0 THEN <<"-">> \o NatToStr(0 - n) ELSE NatToStr(n)

\* f"{x:.6f}" for a coordinate x (an integer here)
Fixed6(n) == IntToStr(n) \o <<".", "0", "0", "0", "0", "0", "0">>

\* s.isdigit()
IsDigit(s) == s # <<>> /\ \A i \in DOMAIN s : \E d \in DOMAIN Digits : Digits[d] = s[i]

\* int(s) for a string of digits
RECURSIVE StrToNat(_)
StrToNat(s) ==
    IF s = <<>> THEN 0
    ELSE 10 * StrToNat(SubSeq(s, 1, Len(s) - 1))
         + ((CHOOSE d \in DOMAIN Digits : Digits[d] = s[Len(s)]) - 1)

\* ' '.join(parts)
RECURSIVE JoinSpace(_)
JoinSpace(parts) ==
    IF parts = <<>> THEN <<>>
    ELSE IF Len(parts) = 1 THEN parts[1]
    ELSE parts[1] \o <<" ">> \o JoinSpace(Tail(parts))

----------------------------------------------------------------------------
(* create_trigger_entity *)

K ==
    [ id |-> <<"i", "d">>,
      plane |-> <<"p", "l", "a", "n", "e">>,
      vertices_plus |-> <<"v", "e", "r", "t", "i", "c", "e", "s", "_", "p", "l", "u", "s">>,
      v |-> <<"v">>,
      material |-> <<"m", "a", "t", "e", "r", "i", "a", "l">>,
      uaxis |-> <<"u", "a", "x", "i", "s">>,
      vaxis |-> <<"v", "a", "x", "i", "s">>,
      rotation |-> <<"r", "o", "t", "a", "t", "i", "o", "n">>,
      lightmapscale |-> <<"l", "i", "g", "h", "t", "m", "a", "p", "s", "c", "a", "l", "e">>,
      smoothing_groups |-> <<"s", "m", "o", "o", "t", "h", "i", "n", "g", "_", "g", "r", "o", "u", "p", "s">>,
      side |-> <<"s", "i", "d", "e">>,
      editor |-> <<"e", "d", "i", "t", "o", "r">>,
      color |-> <<"c", "o", "l", "o", "r">>,
      visgroupshown |-> <<"v", "i", "s", "g", "r", "o", "u", "p", "s", "h", "o", "w", "n">>,
      visgroupautoshown |-> <<"v", "i", "s", "g", "r", "o", "u", "p", "a", "u", "t", "o", "s", "h", "o", "w", "n">>,
      classname |-> <<"c", "l", "a", "s", "s", "n", "a", "m", "e">>,
      spawnflags |-> <<"s", "p", "a", "w", "n", "f", "l", "a", "g", "s">>,
      StartDisabled |-> <<"S", "t", "a", "r", "t", "D", "i", "s", "a", "b", "l", "e", "d">>,
      wait |-> <<"w", "a", "i", "t">>,
      solid |-> <<"s", "o", "l", "i", "d">> ]

\* A Python dict literal: the entries in the order written.
DictOf(pairs) == [i \in DOMAIN pairs |-> [k |-> pairs[i][1], v |-> pairs[i][2]]]

\* f"{v.x:.6f} {v.y:.6f} {v.z:.6f}"
VertexText(v) == JoinSpace(<<Fixed6(v.x), Fixed6(v.y), Fixed6(v.z)>>)

\* side_data for one brush face with the id face_id
TriggerSideData(face_vertices, face_id) ==
    LET plane_points == SubSeq(face_vertices, 1, 3)
        plane_str == JoinSpace([i \in 1..3 |-> <<"(">> \o VertexText(plane_points[i]) \o <<")">>])
        v_list == [i \in DOMAIN face_vertices |-> Str(VertexText(face_vertices[i]))]
    IN  DictOf(<< <<K.id, Str(IntToStr(face_id))>>,
                  <<K.plane, Str(plane_str)>>,
                  <<K.vertices_plus, Dict(DictOf(<< <<K.v, List(v_list)>> >>))>>,
                  <<K.material, Str(<<"T", "O", "O", "L", "S", "/", "T", "O", "O", "L", "S", "T", "R", "I", "G", "G", "E", "R">>)>>,
                  <<K.uaxis, Str(<<"[", "1", " ", "0", " ", "0", " ", "0", "]", " ", "0", ".", "2", "5">>)>>,
                  <<K.vaxis, Str(<<"[", "0", " ", "-", "1", " ", "0", " ", "0", "]", " ", "0", ".", "2", "5">>)>>,
                  <<K.rotation, Str(<<"0">>)>>,
                  <<K.lightmapscale, Str(<<"1", "6">>)>>,
                  <<K.smoothing_groups, Str(<<"0">>)>> >>)

\* for face_vertices in brush_faces: the side_data list from face f on
RECURSIVE TriggerSides(_, _, _)
TriggerSides(brush_faces, f, face_id) ==
    IF f > Len(brush_faces) THEN <<>>
    ELSE IF Len(brush_faces[f]) < 3 THEN TriggerSides(brush_faces, f + 1, face_id)
    ELSE <<Dict(TriggerSideData(brush_faces[f], face_id))>>
         \o TriggerSides(brush_faces, f + 1, face_id + 1)

EditorBlock ==
    Dict(DictOf(<< <<K.color, Str(<<"2", "2", "0", " ", "3", "0", " ", "2", "2", "0">>)>>,
                   <<K.visgroupshown, Str(<<"1">>)>>,
                   <<K.visgroupautoshown, Str(<<"1">>)>> >>))

\* The pair (trigger_entity, face_id) returned: entity is None or the dict.
create_trigger_entity(solid_id, face_id_start, base_side, parent, h) ==
    LET base == get_vertices(base_side)
        n    == compute_normal(base_side, parent)
        brush_faces == IF n = None THEN None ELSE create_trigger_brush_simple(base, n[1], h)
    IN  IF base = <<>> \/ Len(base) < 3 THEN [entity |-> None, face_id |-> face_id_start]
        ELSE IF n = None THEN [entity |-> None, face_id |-> face_id_start]
        ELSE IF brush_faces = None \/ brush_faces[1] = <<>>
             THEN [entity |-> None, face_id |-> face_id_start]
        ELSE LET vmf_sides == TriggerSides(brush_faces[1], 1, face_id_start)
                 trigger_solid ==
                     DictOf(<< <<K.id, Str(IntToStr(solid_id))>>,
                               <<K.side, List(vmf_sides)>>,
                               <<K.editor, EditorBlock>> >>)
                 trigger_entity ==
                     DictOf(<< <<K.id, Str(IntToStr(solid_id + 1))>>,
                               <<K.classname, Str(<<"t", "r", "i", "g", "g", "e", "r", "_", "m", "u", "l", "t", "i", "p", "l", "e">>)>>,
                               <<K.spawnflags, Str(<<"1">>)>>,
                               <<K.StartDisabled, Str(<<"0">>)>>,
                               <<K.wait, Str(<<"0">>)>>,
                               <<K.solid, Dict(trigger_solid)>>,
                               <<K.editor, EditorBlock>> >>)
             IN  [entity |-> Some(trigger_entity), face_id |-> face_id_start + Len(vmf_sides)]

----------------------------------------------------------------------------
(* The documents main() is run on *)

SideOf(id, plane, vertices_plus, material) ==
    [id |-> id, plane |-> plane, vertices_plus |-> vertices_plus, material |-> material]

Loop ==
    [ floor |-> <<Vertex(0, 0, 0), Vertex(2, 0, 0), Vertex(2, 2, 0), Vertex(0, 2, 0)>>,
      wall  |-> <<Vertex(0, 0, 0), Vertex(0, 2, 0), Vertex(0, 2, 2), Vertex(0, 0, 2)>>,
      bent  |-> <<Vertex(0, 0, 0), Vertex(2, 0, 0), Vertex(2, 2, 0), Vertex(0, 2, 4)>>,
      ramp  |-> <<Vertex(0, 0, 3), Vertex(4, 0, 0), Vertex(4, 2, 0), Vertex(0, 2, 3)>> ]
PlaneOf(loop) == SubSeq(loop, 1, 3)

Mat ==
    [ dev  |-> <<"D", "E", "V", "1">>,
      ramp |-> <<"d", "e", "v">>,
      sky  |-> <<"s", "k", "y">> ]

\* box: a level floor and a wall; bent: a bent (non-planar) quad and a floor
\* of another material; pair: a face with two explicit vertices beside a
\* valid plane; misc: a face with no points, a face given by its plane alone
\* and a face without material; ramp: a ramp of slope 3:4.
SolidGiven ==
    [ box |->
        [id |-> Some(<<"7">>),
         sides |-> << SideOf(Some(<<"3">>), PlaneOf(Loop.floor), Loop.floor, Some(Mat.dev)),
                      SideOf(Some(<<"4">>), PlaneOf(Loop.wall), Loop.wall, Some(Mat.dev)) >>],
      bent |->
        [id |-> Some(<<"1", "2", "0", "0", "0">>),
         sides |-> << SideOf(Some(<<"2", "5", "0", "0", "0">>), PlaneOf(Loop.bent), Loop.bent, Some(Mat.dev)),
                      SideOf(None, PlaneOf(Loop.floor), Loop.floor, Some(Mat.sky)) >>],
      pair |->
        [id |-> None,
         sides |-> << SideOf(Some(<<"5">>), PlaneOf(Loop.floor), SubSeq(Loop.floor, 1, 2), Some(Mat.dev)) >>],
      misc |->
        [id |-> Some(<<"x", "9">>),
         sides |-> << SideOf(Some(<<"6">>), <<>>, <<>>, Some(Mat.dev)),
                      SideOf(Some(<<"8">>), PlaneOf(Loop.floor), <<>>, Some(Mat.dev)),
                      SideOf(Some(<<"9">>), PlaneOf(Loop.floor), Loop.floor, None) >>],
      ramp |->
        [id |-> Some(<<"2">>),
         sides |-> << SideOf(Some(<<"1">>), PlaneOf(Loop.ramp), Loop.ramp, Some(Mat.ramp)) >>] ]

SolidSet == { SolidGiven[n] : n \in DOMAIN SolidGiven }

\* The text a coordinate, a vertex and a plane have in the input document.
PointText(v) == JoinSpace(<<IntToStr(v.x), IntToStr(v.y), IntToStr(v.z)>>)
PlaneText(plane) == JoinSpace([i \in DOMAIN plane |-> <<"(">> \o PointText(plane[i]) \o <<")">>])

\* The dict parse_block returns for the block a Side or Solid was read from:
\* the keys in document order, a repeated key folded as parse_block folds.
RECURSIVE BindAll(_, _, _)
BindAll(d, k, vals) ==
    IF vals = <<>> THEN d ELSE BindAll(Bind(d, k, Head(vals)), k, Tail(vals))
BindIf(d, k, opt) == IF opt = None THEN d ELSE Bind(d, k, Str(opt[1]))

SideData(side) ==
    LET d1 == BindIf(<<>>, K.id, side.id)
        d2 == IF side.plane = <<>> THEN d1 ELSE Bind(d1, K.plane, Str(PlaneText(side.plane)))
        d3 == IF side.vertices_plus = <<>> THEN d2
              ELSE Bind(d2, K.vertices_plus,
                        Dict(BindAll(<<>>, K.v,
                                     [i \in DOMAIN side.vertices_plus |->
                                          Str(PointText(side.vertices_plus[i]))])))
    IN  BindIf(d3, K.material, side.material)

SolidData(solid) ==
    BindAll(BindIf(<<>>, K.id, solid.id), K.side,
            [i \in DOMAIN solid.sides |-> Dict(SideData(solid.sides[i]))])

WorldData(ss) ==
    BindAll(DictOf(<< <<K.id, Str(<<"1">>)>>, <<K.classname, Str(<<"w", "o", "r", "l", "d", "s", "p", "a", "w", "n">>)>> >>),
            K.solid, [i \in DOMAIN ss |-> Dict(SolidData(ss[i]))])

\* What a world block may hold beside its id, classname and solids: nothing,
\* or a nested block and a key that is repeated (folded to a list).
WorldExtraSet ==
    { <<>>,
      << <<<<"g", "r", "o", "u", "p">>, Dict(DictOf(<< <<K.id, Str(<<"5">>)>> >>))>>,
         <<<<"d", "e", "t", "a", "i", "l">>, Str(<<"a">>)>>,
         <<<<"d", "e", "t", "a", "i", "l">>, Str(<<"b">>)>> >> }

\* parser.world for the world solids ss and the further pairs extra, bound
\* in document order.
RECURSIVE BindPairs(_, _)
BindPairs(d, pairs) ==
    IF pairs = <<>> THEN d
    ELSE BindPairs(Bind(d, Head(pairs)[1], Head(pairs)[2]), Tail(pairs))
WorldWith(ss, extra) == BindPairs(WorldData(ss), extra)

VersionInfoSet ==
    { Dict(<<>>),
      Dict(DictOf(<< <<<<"e", "d", "i", "t", "o", "r", "v", "e", "r", "s", "i", "o", "n">>, Str(<<"4", "0", "0">>)>> >>)),
      Str(<<"4", "0", "0">>) }

EntitiesGiven == << DictOf(<< <<K.id, Str(<<"2">>)>>, <<K.classname, Str(<<"i", "n", "f", "o", "_", "p", "l", "a", "y", "e", "r", "_", "s", "t", "a", "r", "t">>)>> >>) >>
\* The same entity in a document whose entity ids have passed 10000.
EntitiesHighId == << DictOf(<< <<K.id, Str(<<"1", "0", "0", "0", "2">>)>>, <<K.classname, Str(<<"i", "n", "f", "o", "_", "p", "l", "a", "y", "e", "r", "_", "s", "t", "a", "r", "t">>)>> >>) >>
EntitiesSet == { EntitiesGiven, EntitiesHighId }
CamerasGiven == Dict(DictOf(<< <<<<"a", "c", "t", "i", "v", "e", "c", "a", "m", "e", "r", "a">>, Str(<<"-", "1">>)>> >>))

\* The materials entered by the user, lower-cased: "dev".
target_materials == << <<"d", "e", "v">> >>

----------------------------------------------------------------------------
(* main(): id counters and the surface loop *)

\* str.lower() on the letters the materials use
LowerChar(c) ==
    IF c = "D" THEN "d" ELSE IF c = "E" THEN "e" ELSE IF c = "V" THEN "v" ELSE c
Lower(str) == [i \in DOMAIN str |-> LowerChar(str[i])]

\* target in material_lower
Contains(str, sub) ==
    \E i \in 0..(Len(str) - Len(sub)) : SubSeq(str, i + 1, i + Len(sub)) = sub

\* matches, for a material that is set
Matches(material) ==
    \E t \in DOMAIN target_materials : Contains(Lower(material), target_materials[t])

Max(a, b) == IF a >= b THEN a ELSE b

\* max over the ids that are strings of digits, starting from floor
RECURSIVE MaxId(_, _)
MaxId(ids, floor) ==
    IF ids = <<>> THEN floor
    ELSE LET id == Head(ids)
         IN  MaxId(Tail(ids),
                   IF id # None /\ IsDigit(id[1]) THEN Max(floor, StrToNat(id[1])) ELSE floor)

RECURSIVE AllSides(_)
AllSides(ss) == IF ss = <<>> THEN <<>> ELSE Head(ss).sides \o AllSides(Tail(ss))

InitialSolidId == 10000
InitialFaceId == 20000

max_solid_id == MaxId([i \in DOMAIN solids |-> solids[i].id], InitialSolidId)
max_face_id ==
    MaxId([i \in DOMAIN AllSides(solids) |-> AllSides(solids)[i].id], InitialFaceId)

StatsStart ==
    [total_matching |-> 0, walls_skipped |-> 0, non_planar_skipped |-> 0,
     floor |-> 0, ceiling |-> 0, ramp |-> 0, steep_slope |-> 0, ceiling_ramp |-> 0,
     steep_ceiling_slope |-> 0, gentle_slope |-> 0, gentle_ceiling_slope |-> 0]

\* surface_stats[key] += 1, if key is one of its keys
Count(stats, key) == IF key \in DOMAIN stats THEN [stats EXCEPT ![key] = @ + 1] ELSE stats

InitMain ==
    /\ solids \in SeqsUpTo(SolidSet, MaxSolids)
    /\ versioninfo \in VersionInfoSet
    /\ world = WorldData(solids)
    /\ entities = EntitiesGiven
    /\ cameras = CamerasGiven
    /\ trigger_height \in HeightSet
    /\ mpc = "ids"
    /\ si = 0 /\ fi = 0
    /\ solid_id_counter = 0 /\ face_id_counter = 0
    /\ new_triggers = <<>>
    /\ triggered_materials = {}
    /\ surface_stats = StatsStart
    /\ outfile = None
    /\ wi = 0
    /\ IdleParser
    /\ IdleBrush
    /\ IdleCall

\* main() on documents whose world block holds further keys and whose
\* entities have other ids.
InitDocs ==
    /\ solids \in SeqsUpTo(SolidSet, MaxDocSolids)
    /\ versioninfo \in VersionInfoSet
    /\ \E extra \in WorldExtraSet : world = WorldWith(solids, extra)
    /\ entities \in EntitiesSet
    /\ cameras = CamerasGiven
    /\ trigger_height \in HeightSet
    /\ mpc = "ids"
    /\ si = 0 /\ fi = 0
    /\ solid_id_counter = 0 /\ face_id_counter = 0
    /\ new_triggers = <<>>
    /\ triggered_materials = {}
    /\ surface_stats = StatsStart
    /\ outfile = None
    /\ wi = 0
    /\ IdleParser
    /\ IdleBrush
    /\ IdleCall

\* The solid and the side the loop is at.
solid == solids[si]
side == solids[si].sides[fi]
AtSide == mpc = "loop" /\ si <= Len(solids) /\ fi <= Len(solids[si].sides)

HasMaterial(sd) == sd.material # None /\ sd.material[1] # <<>>
MatchingSide(sd) == HasMaterial(sd) /\ Matches(sd.material[1])

\* continue: the inner loop goes to the next side
NextSide ==
    /\ fi' = fi + 1
    /\ UNCHANGED <<si, mpc>>

\* if trigger_entity: new_triggers.append(trigger_entity)
AppendTrigger(triggers, entity) ==
    IF entity # None THEN Append(triggers, entity[1]) ELSE triggers

\* if trigger_entity: solid_id_counter += 2
NextSolidIdAlways(counter, entity) == counter + 2
NextSolidId(counter, entity) == IF entity # None THEN counter + 2 ELSE counter

\* max ids, solid_id_counter, face_id_counter, surface_stats
ComputeIds ==
    /\ mpc = "ids"
    /\ solid_id_counter' = max_solid_id + 1
    /\ face_id_counter' = max_face_id + 1
    /\ mpc' = "loop"
    /\ si' = 1 /\ fi' = 1
    /\ UNCHANGED <<new_triggers, triggered_materials, surface_stats>>
    /\ UNCHANGED <<docVars, fileVars, parserVars, brushVars, callVars>>

\* if not side.material: continue
SkipNoMaterial ==
    /\ AtSide /\ ~HasMaterial(side)
    /\ NextSide
    /\ UNCHANGED <<solid_id_counter, face_id_counter, new_triggers, triggered_materials,
                   surface_stats>>
    /\ UNCHANGED <<docVars, fileVars, parserVars, brushVars, callVars>>

\* if not matches: continue
SkipNoMatch ==
    /\ AtSide /\ HasMaterial(side) /\ ~Matches(side.material[1])
    /\ NextSide
    /\ UNCHANGED <<solid_id_counter, face_id_counter, new_triggers, triggered_materials,
                   surface_stats>>
    /\ UNCHANGED <<docVars, fileVars, parserVars, brushVars, callVars>>

\* if not side.is_planar(tolerance=1.0): count and continue
SkipNonPlanar ==
    /\ AtSide /\ MatchingSide(side)
    /\ ~is_planar(side, solid, 1)
    /\ surface_stats' = Count(Count(surface_stats, "total_matching"), "non_planar_skipped")
    /\ NextSide
    /\ UNCHANGED <<solid_id_counter, face_id_counter, new_triggers, triggered_materials>>
    /\ UNCHANGED <<docVars, fileVars, parserVars, brushVars, callVars>>

\* if not side.is_surfable(): count and continue
SkipWall ==
    /\ AtSide /\ MatchingSide(side)
    /\ is_planar(side, solid, 1)
    /\ ~is_surfable(side, solid)
    /\ surface_stats' = Count(Count(surface_stats, "total_matching"), "walls_skipped")
    /\ NextSide
    /\ UNCHANGED <<solid_id_counter, face_id_counter, new_triggers, triggered_materials>>
    /\ UNCHANGED <<docVars, fileVars, parserVars, brushVars, callVars>>

\* The rest of the loop body: the surface type is counted and
\* create_trigger_entity is called. (After is_surfable the normal is not
\* None and a Vertex is always true, so "if not normal: continue" is not
\* taken.)
CreateTrigger ==
    /\ AtSide /\ MatchingSide(side)
    /\ is_planar(side, solid, 1)
    /\ is_surfable(side, solid)
    /\ LET got == create_trigger_entity(solid_id_counter, face_id_counter, side, solid,
                                        trigger_height)
       IN  /\ surface_stats' =
                  Count(Count(surface_stats, "total_matching"), get_surface_type(side, solid))
           /\ face_id_counter' = got.face_id
           /\ new_triggers' = AppendTrigger(new_triggers, got.entity)
           /\ triggered_materials' =
                  IF got.entity # None THEN triggered_materials \cup {side.material[1]}
                  ELSE triggered_materials
           /\ solid_id_counter' = NextSolidId(solid_id_counter, got.entity)
    /\ NextSide
    /\ UNCHANGED <<docVars, fileVars, parserVars, brushVars, callVars>>

\* the inner loop is exhausted: the outer loop goes to the next solid
NextSolid ==
    /\ mpc = "loop" /\ si <= Len(solids) /\ fi > Len(solids[si].sides)
    /\ si' = si + 1
    /\ fi' = 1
    /\ UNCHANGED <<mpc, solid_id_counter, face_id_counter, new_triggers, triggered_materials,
                   surface_stats>>
    /\ UNCHANGED <<docVars, fileVars, parserVars, brushVars, callVars>>

\* the outer loop is exhausted: the results are reported; without triggers
\* main returns, otherwise it goes on to write the output
Report ==
    /\ mpc = "loop" /\ si > Len(solids)
    /\ mpc' = IF Len(new_triggers) = 0 THEN "no_triggers" ELSE "open"
    /\ UNCHANGED <<loopVars, docVars, fileVars, parserVars, brushVars, callVars>>

----------------------------------------------------------------------------
(* main(): writing the output file *)

\* if value: for a str, a dict or a list
Truthy(value) == value.v # <<>>

\* A write of the with-block: a call of write_vmf_block, or f.write of raw text.
BlockJob(name, content, indent) ==
    [kind |-> "block", name |-> name, content |-> content, indent |-> indent, chars |-> <<>>]
RawJob(chars) ==
    [kind |-> "raw", name |-> <<>>, content |-> Dict(<<>>), indent |-> 0, chars |-> chars]

\* if block: write_vmf_block(f, name, block)
HeaderJobs(name, block) == IF Truthy(block) THEN <<BlockJob(name, block, 0)>> ELSE <<>>

\* The lines the world loop writes for the keys it does not skip.
RECURSIVE WorldLines(_, _)
WorldLines(w, i) ==
    IF i > Len(w) THEN <<>>
    ELSE (IF w[i].k = K.solid \/ w[i].v.t \in {"dict", "list"} THEN <<>>
          ELSE KeyValueLine(0, w[i].k, w[i].v.v))
         \o WorldLines(w, i + 1)

\* world_solids = parser.world.get('solid', []), made a list
WorldSolids(w) ==
    IF ~HasKey(w, K.solid) THEN <<>>
    ELSE LET got == Lookup(w, K.solid)
         IN  IF got.t = "list" THEN got.v ELSE IF Truthy(got) THEN <<got>> ELSE <<>>

\* The writes of the with-block, in order.
WritePlan ==
    HeaderJobs(<<"v", "e", "r", "s", "i", "o", "n", "i", "n", "f", "o">>, versioninfo)
    \o <<RawJob(<<"w", "o", "r", "l", "d", "\n", "{", "\n">> \o WorldLines(world, 1))>>
    \o LET ws   == WorldSolids(world)
           kept == SelectSeq(ws, Truthy)
       IN  [i \in DOMAIN kept |-> BlockJob(K.solid, kept[i], 1)]
    \o <<RawJob(<<"}", "\n">>)>>
    \o [i \in DOMAIN entities |-> BlockJob(<<"e", "n", "t", "i", "t", "y">>, Dict(entities[i]), 0)]
    \o [i \in DOMAIN new_triggers |-> BlockJob(<<"e", "n", "t", "i", "t", "y">>, Dict(new_triggers[i]), 0)]
    \o HeaderJobs(<<"c", "a", "m", "e", "r", "a", "s">>, cameras)

\* What a write adds to the file when nothing fails.
JobText(job) ==
    IF job.kind = "raw" THEN job.chars
    ELSE write_vmf_block(job.name, job.content.v, job.indent)

\* What write_vmf_block has written when content.items() raises.
BlockOpening(job) ==
    Tabs(job.indent) \o job.name \o <<"\n">> \o Tabs(job.indent) \o <<"{", "\n">>

RECURSIVE PlanText(_, _)
PlanText(plan, i) == IF i > Len(plan) THEN <<>> ELSE JobText(plan[i]) \o PlanText(plan, i + 1)

\* open(output_file, 'w') creates or truncates the file
OpenOutput ==
    /\ mpc = "open"
    /\ outfile' = Some(<<>>)
    /\ wi' = 1
    /\ mpc' = "write"
    /\ UNCHANGED <<docVars, loopVars, parserVars, brushVars, callVars>>

\* open raises: the except clause logs and main returns
OpenFails ==
    /\ mpc = "open"
    /\ mpc' = "failed"
    /\ UNCHANGED <<docVars, loopVars, fileVars, parserVars, brushVars, callVars>>

\* f.write(...) of raw text
WriteRaw ==
    /\ mpc = "write" /\ wi <= Len(WritePlan) /\ WritePlan[wi].kind = "raw"
    /\ outfile' = Some(outfile[1] \o JobText(WritePlan[wi]))
    /\ wi' = wi + 1
    /\ UNCHANGED <<mpc, docVars, loopVars, parserVars, brushVars, callVars>>

\* write_vmf_block on a dict
WriteBlock ==
    /\ mpc = "write" /\ wi <= Len(WritePlan)
    /\ WritePlan[wi].kind = "block" /\ WritePlan[wi].content.t = "dict"
    /\ outfile' = Some(outfile[1] \o JobText(WritePlan[wi]))
    /\ wi' = wi + 1
    /\ UNCHANGED <<mpc, docVars, loopVars, parserVars, brushVars, callVars>>

\* write_vmf_block on a str or a list: the opening is written, then
\* content.items() raises AttributeError; the except clause logs and main
\* returns
WriteBlockRaises ==
    /\ mpc = "write" /\ wi <= Len(WritePlan)
    /\ WritePlan[wi].kind = "block" /\ WritePlan[wi].content.t # "dict"
    /\ outfile' = Some(outfile[1] \o BlockOpening(WritePlan[wi]))
    /\ mpc' = "failed"
    /\ UNCHANGED <<wi, docVars, loopVars, parserVars, brushVars, callVars>>

\* a write raises OSError: the except clause logs and main returns
WriteFails ==
    /\ mpc = "write" /\ wi <= Len(WritePlan)
    /\ mpc' = "failed"
    /\ UNCHANGED <<docVars, loopVars, fileVars, parserVars, brushVars, callVars>>

\* the with-block ends: the file is closed, SUCCESS is printed
CloseOutput ==
    /\ mpc = "write" /\ wi > Len(WritePlan)
    /\ mpc' = "done"
    /\ UNCHANGED <<docVars, loopVars, fileVars, parserVars, brushVars, callVars>>

NextMain ==
    \/ ComputeIds
    \/ SkipNoMaterial
    \/ SkipNoMatch
    \/ SkipNonPlanar
    \/ SkipWall
    \/ CreateTrigger
    \/ NextSolid
    \/ Report
    \/ OpenOutput
    \/ OpenFails
    \/ WriteRaw
    \/ WriteBlock
    \/ WriteBlockRaises
    \/ WriteFails
    \/ CloseOutput

SpecMain == InitMain /\ [][NextMain]_vars

SpecDocs == InitDocs /\ [][NextMain]_vars

----------------------------------------------------------------------------
(* Properties of the orchestrator *)

AfterLoop == mpc \in {"no_triggers", "open", "write", "done", "failed"}

\* C5: skip accounting. After the surface loop every face whose material
\* matched has been counted once as a created trigger or in one skip
\* counter: total_matching = non_planar_skipped + walls_skipped + the number
\* of triggers created.
C5_SkipAccounting ==
    AfterLoop =>
        surface_stats.total_matching =
            surface_stats.non_planar_skipped + surface_stats.walls_skipped + Len(new_triggers)

\* A face with fewer than 3 usable vertices, or whose normal cannot be
\* computed.
DegenerateSide(sd, parent) ==
    Len(get_vertices(sd)) < 3 \/ compute_normal(sd, parent) = None

\* C8: degenerate input. For a degenerate face create_trigger_entity returns
\* no entity and the face-id counter it was given; the loop step on such a
\* face appends nothing to new_triggers, leaves solid_id_counter and
\* face_id_counter unchanged and moves on to the next side; and the loop is
\* left only when every solid has been visited.
C8_ReturnsNothing ==
    /\ (AtSide /\ DegenerateSide(side, solid)) =>
           create_trigger_entity(solid_id_counter, face_id_counter, side, solid, trigger_height)
               = [entity |-> None, face_id |-> face_id_counter]
    /\ AfterLoop => si = Len(solids) + 1
C8_StepSkips ==
    (AtSide /\ DegenerateSide(side, solid)) =>
        /\ new_triggers' = new_triggers
        /\ solid_id_counter' = solid_id_counter
        /\ face_id_counter' = face_id_counter
        /\ mpc' = "loop" /\ si' = si /\ fi' = fi + 1
C8_DegenerateSkipped == []C8_ReturnsNothing /\ [][C8_StepSkips]_vars

\* C8 witness: the loop has just passed a matching, planar, surfable face
\* with fewer than 3 usable vertices, which went through
\* create_trigger_entity, and there are solids left to process.
C8_Witness ==
    /\ mpc = "loop" /\ si < Len(solids) /\ fi > 1
    /\ LET prev == solids[si].sides[fi - 1]
       IN  /\ MatchingSide(prev)
           /\ is_planar(prev, solids[si], 1)
           /\ is_surfable(prev, solids[si])
           /\ Len(get_vertices(prev)) < 3

\* C9: no partial output. When main has returned, the output file does not
\* exist, or every write of the output block succeeded and the file holds
\* the complete serialized document.
C9_NoPartialOutput ==
    mpc \in {"no_triggers", "done", "failed"} =>
        \/ outfile = None
        \/ /\ \A j \in DOMAIN WritePlan : WritePlan[j].content.t = "dict"
           /\ outfile = Some(PlanText(WritePlan, 1))

\* C10: face point source. For the face the loop is at, the vertices are the
\* explicit loop when it has at least 3 points, else the 3 plane points when
\* there are 3, else none; they are the points compute_normal uses whenever
\* it yields a normal; and a face with fewer than 3 points from both
\* sources has no vertices, no centre and no normal.
C10_PointSource ==
    AtSide =>
        LET expected == IF Len(side.vertices_plus) >= 3 THEN side.vertices_plus
                        ELSE IF Len(side.plane) >= 3 THEN SubSeq(side.plane, 1, 3)
                        ELSE <<>>
        IN  /\ get_vertices(side) = expected
            /\ compute_normal(side, solid) # None => get_vertices(side) = PointsToUse(side)
            /\ Len(expected) < 3 =>
                   get_face_center(side) = None /\ compute_normal(side, solid) = None

\* The text of the blocks bs written one after another under the same name.
RECURSIVE BlocksText(_, _, _)
BlocksText(name, bs, indent) ==
    IF bs = <<>> THEN <<>>
    ELSE write_vmf_block(name, Head(bs), indent) \o BlocksText(name, Tail(bs), indent)

\* The world solids of the document in their order, the end of the world
\* block, the entities of the document in their order and after them the
\* triggers in the order they were created, as the serializer renders them.
PreservedText ==
    BlocksText(K.solid, [i \in DOMAIN solids |-> SolidData(solids[i])], 1)
    \o <<"}", "\n">>
    \o BlocksText(<<"e", "n", "t", "i", "t", "y">>, entities \o new_triggers, 0)

Returned == mpc \in {"no_triggers", "done", "failed"}

\* C11: document preservation. When main has returned and there is an
\* output file, the file holds every world solid and every entity of the
\* document, rendered unchanged and in the original order, followed by the
\* trigger entities in the order of their creation, with nothing in between.
C11_DocumentPreserved ==
    (Returned /\ outfile # None) => Contains(outfile[1], PreservedText)

\* The ids of the triggers created so far: of trigger i, its entity id, the
\* id of its solid and the ids of the faces of that solid in their order.
TriggerIds(i) ==
    LET trigger_solid == Lookup(new_triggers[i], K.solid).v
        vmf_sides     == Lookup(trigger_solid, K.side).v
    IN  [entity |-> Lookup(new_triggers[i], K.id).v,
         solid  |-> Lookup(trigger_solid, K.id).v,
         faces  |-> [f \in DOMAIN vmf_sides |-> Lookup(vmf_sides[f].v, K.id).v]]

\* C16: identifier freshness. After the loop, the entity ids of the triggers
\* differ from one another and from every entity id of the document, their
\* solid ids differ from one another and from every solid id of the
\* document, and their face ids differ from one another and from every face
\* id of the document; the face ids of a trigger count up by one from the
\* counter passed in, and the counter returned is that start plus the number
\* of faces emitted.
C16_IdFreshness ==
    AfterLoop =>
        LET T == DOMAIN new_triggers
            entityIds == { Lookup(entities[e], K.id).v :
                             e \in { d \in DOMAIN entities : HasKey(entities[d], K.id) } }
            solidIds  == { solids[i].id[1] : i \in { d \in DOMAIN solids : solids[d].id # None } }
            sides     == AllSides(solids)
            faceIds   == { sides[i].id[1] : i \in { d \in DOMAIN sides : sides[d].id # None } }
            start[i \in 1..(Len(new_triggers) + 1)] ==
                IF i = 1 THEN max_face_id + 1
                ELSE start[i - 1] + Len(TriggerIds(i - 1).faces)
        IN  /\ \A i \in T :
                  /\ TriggerIds(i).entity \notin entityIds
                  /\ TriggerIds(i).solid \notin solidIds
                  /\ \A f \in DOMAIN TriggerIds(i).faces :
                         /\ TriggerIds(i).faces[f] \notin faceIds
                         /\ TriggerIds(i).faces[f] = IntToStr(start[i] + f - 1)
            /\ \A i, j \in T :
                  i # j =>
                     /\ TriggerIds(i).entity # TriggerIds(j).entity
                     /\ TriggerIds(i).solid # TriggerIds(j).solid
                     /\ \A f \in DOMAIN TriggerIds(i).faces, g \in DOMAIN TriggerIds(j).faces :
                            TriggerIds(i).faces[f] # TriggerIds(j).faces[g]
            /\ face_id_counter = start[Len(new_triggers) + 1]

\* The opening of the world block followed by every entry of the parsed
\* world block other than 'solid', each with all of its values: a scalar as
\* a line, a nested block as a block, a repeated key as one line or block
\* per value.
WorldPassedThrough ==
    LET IsData(entry) == entry.k # K.solid
    IN  <<"w", "o", "r", "l", "d", "\n", "{", "\n">>
        \o WriteItems(SelectSeq(world, IsData), 1, 0)

\* C17: world block pass-through. When the output has been written to the
\* end, its world block holds every key of the parsed world block other
\* than 'solid' with all of its values, scalars, nested blocks and the
\* values of repeated keys alike.
C17_WorldPassThrough ==
    mpc = "done" => Contains(outfile[1], WorldPassedThrough)

----------------------------------------------------------------------------
(* Vertex.__eq__ and Vertex.__hash__ *)

\* For these two methods a coordinate is an integer number of
\* ten-thousandths, so that the grid is finer than the tolerance.
\* epsilon = 0.001
Epsilon == 10

Abs(n) == IF n < 0 THEN 0 - n ELSE n

\* a == b, for two Vertex objects
VertexEq(a, b) ==
    /\ Abs(a.x - b.x) < Epsilon
    /\ Abs(a.y - b.y) < Epsilon
    /\ Abs(a.z - b.z) < Epsilon

\* round(c, 3), in thousandths: the multiple of 0.001 nearest to c. (A
\* coordinate halfway between two multiples does not occur on the grid.)
Round3(c) == CHOOSE n \in { c \div 10, (c \div 10) + 1 } : Abs(c - 10 * n) < 5

\* hash(v): the tuple that is hashed
VertexHash(v) == <<Round3(v.x), Round3(v.y), Round3(v.z)>>

\* The coordinates drawn: multiples of 0.0004.
CoordSet == { 0 - 4, 0, 4, 8 }

----------------------------------------------------------------------------
(* num *)

\* A number, a Python int or float, is [m, e] and stands for m * 10^e; zero
\* is [0, 0]. The argument of num is [t |-> "int", n |-> number],
\* [t |-> "float", n |-> number], [t |-> "none"] or a string Str(chars).

\* int(s) for floating = FALSE and float(s) for TRUE, on the text s: None
\* when the call raises ValueError, else the number the literal denotes.
\* Both skip surrounding whitespace, take one sign and allow single
\* underscores between digits; float takes a point and an exponent.
PyLiteral(s, floating) ==
    LET IsDigitChar(c) == \E d \in DOMAIN Digits : Digits[d] = c
        DigitPart(ds) ==
            /\ ds # <<>>
            /\ IsDigitChar(ds[1]) /\ IsDigitChar(ds[Len(ds)])
            /\ \A i \in DOMAIN ds : IsDigitChar(ds[i]) \/ ds[i] = "_"
            /\ \A i \in 1..(Len(ds) - 1) : ~(ds[i] = "_" /\ ds[i + 1] = "_")
        Value(ds) == StrToNat(SelectSeq(ds, IsDigitChar))
        Signed(t) == t # <<>> /\ t[1] \in {"-", "+"}
        Body(t) == IF Signed(t) THEN Tail(t) ELSE t
        Sign(t) == IF Signed(t) /\ t[1] = "-" THEN 0 - 1 ELSE 1
        \* index of the first character of t that is in cs, or 0
        First(t, cs) == IF \E i \in DOMAIN t : t[i] \in cs
                        THEN CHOOSE i \in DOMAIN t :
                                 t[i] \in cs /\ \A j \in 1..(i - 1) : t[j] \notin cs
                        ELSE 0
        Number(m, e) == IF m = 0 THEN [m |-> 0, e |-> 0] ELSE [m |-> m, e |-> e]
        st   == Strip(s, Whitespace)
        body == Body(st)
        ei   == First(body, {"e", "E"})
        mant == IF ei = 0 THEN body ELSE SubSeq(body, 1, ei - 1)
        expo == IF ei = 0 THEN <<>> ELSE SubSeq(body, ei + 1, Len(body))
        pi   == First(mant, {"."})
        ip   == IF pi = 0 THEN mant ELSE SubSeq(mant, 1, pi - 1)
        fp   == IF pi = 0 THEN <<>> ELSE SubSeq(mant, pi + 1, Len(mant))
        mantOk == IF pi = 0 THEN DigitPart(mant)
                  ELSE /\ ip = <<>> \/ DigitPart(ip)
                       /\ fp = <<>> \/ DigitPart(fp)
                       /\ ip # <<>> \/ fp # <<>>
        expoOk == ei = 0 \/ DigitPart(Body(expo))
        x    == IF ei = 0 THEN 0 ELSE Sign(expo) * Value(Body(expo))
    IN  IF ~floating
        THEN IF DigitPart(body) THEN Some(Number(Sign(st) * Value(body), 0)) ELSE None
        ELSE IF mantOk /\ expoOk
             THEN Some(Number(Sign(st) * Value(ip \o fp), x - Len(SelectSeq(fp, IsDigitChar))))
             ELSE None

\* The number n is within the range of a double (below about 1.797e308 in
\* magnitude); exact for mantissas of at most 4 digits.
FitsDouble(n) ==
    LET a     == Abs(n.m)
        count == Len(NatToStr(a))
        lead4 == IF count = 1 THEN a * 1000 ELSE IF count = 2 THEN a * 100
                 ELSE IF count = 3 THEN a * 10 ELSE a
    IN  n.m = 0 \/ count + n.e < 309 \/ (count + n.e = 309 /\ lead4 <= 1797)

\* num(s): what the call raises (<<>> if nothing), the value it returns and
\* whether it logged the warning. float(int) raises OverflowError for an int
\* outside the range of a double; float(text) gives inf there.
num(s) ==
    LET Returns(v, w) == [raised |-> None, value |-> Some(v), warned |-> w]
        Raises(exc)   == [raised |-> Some(exc), value |-> None, warned |-> FALSE]
        Zero          == [m |-> 0, e |-> 0]
        Inf(sign)     == [m |-> sign, e |-> 0, inf |-> TRUE]
    IN  IF s.t = "float" THEN Returns(s.n, FALSE)
        ELSE IF s.t = "int"
             THEN IF FitsDouble(s.n) THEN Returns(s.n, FALSE) ELSE Raises("OverflowError")
        ELSE IF s.t = "none" \/ s.v = <<>> THEN Returns(Zero, FALSE)
        ELSE LET st == Strip(s.v, Whitespace)
             IN  IF ~(\E i \in DOMAIN st : st[i] = ".")
                    /\ ~(\E i \in DOMAIN st : Lower(st)[i] = "e")
                 THEN LET n == PyLiteral(st, FALSE)
                      IN  IF n # None /\ FitsDouble(n[1]) THEN Returns(n[1], FALSE)
                          ELSE Returns(Zero, TRUE)
                 ELSE LET n == PyLiteral(st, TRUE)
                      IN  IF n = None THEN Returns(Zero, TRUE)
                          ELSE IF FitsDouble(n[1]) THEN Returns(n[1], FALSE)
                          ELSE Returns(Inf(IF n[1].m < 0 THEN 0 - 1 ELSE 1), FALSE)

\* The arguments drawn: ints and floats, among them an int beyond the range
\* of a double, None, and every text of up to MaxText characters over digits,
\* sign, point, exponent marker, underscore, a letter and a blank.
NumArgs ==
    { [t |-> "int", n |-> [m |-> 0, e |-> 0]], [t |-> "int", n |-> [m |-> 7, e |-> 0]],
      [t |-> "int", n |-> [m |-> 0 - 3, e |-> 0]], [t |-> "int", n |-> [m |-> 1, e |-> 400]],
      [t |-> "float", n |-> [m |-> 5, e |-> 0 - 1]], [t |-> "none"] }
    \cup { Str(v) : v \in SeqsUpTo({"1", "5", "-", ".", "e", "E", "_", "a", " "}, MaxText) }

----------------------------------------------------------------------------
(* Calls of the functions on drawn arguments *)

\* The solids whose faces the Side methods are called on: the solids of the
\* documents, a closed cube whose faces are wound outward, and for every
\* dx, dz a solid of one face given by the plane (0 0 0) (dx 0 dz) (0 1 0),
\* whose raw normal is (-dz, 0, dx) normalized.
SolidsDrawn ==
    LET Face(a, b, c, d) == SideOf(None, <<a, b, c>>, <<a, b, c, d>>, None)
        P(x, y, z) == Vertex(2 * x, 2 * y, 2 * z)
        Cube == [id |-> None,
                 sides |-> << Face(P(0, 0, 1), P(1, 0, 1), P(1, 1, 1), P(0, 1, 1)),
                              Face(P(0, 0, 0), P(0, 1, 0), P(1, 1, 0), P(1, 0, 0)),
                              Face(P(1, 0, 0), P(1, 1, 0), P(1, 1, 1), P(1, 0, 1)),
                              Face(P(0, 0, 0), P(0, 0, 1), P(0, 1, 1), P(0, 1, 0)),
                              Face(P(0, 1, 0), P(0, 1, 1), P(1, 1, 1), P(1, 1, 0)),
                              Face(P(0, 0, 0), P(1, 0, 0), P(1, 0, 1), P(0, 0, 1)) >>]
        Slope(dx, dz) ==
            [id |-> None,
             sides |-> << SideOf(None, <<Vertex(0, 0, 0), Vertex(dx, 0, dz), Vertex(0, 1, 0)>>,
                                 <<>>, None) >>]
    IN  SolidSet \cup {Cube}
        \cup { Slope(dx, dz) : dx \in (0 - MaxSlope)..MaxSlope, dz \in (0 - MaxSlope)..MaxSlope }

InitCalls ==
    /\ \/ arg \in [fn : {"Vertex"},
                    a : [x : CoordSet, y : CoordSet, z : CoordSet],
                    b : [x : CoordSet, y : CoordSet, z : CoordSet]]
       \/ \E parent \in SolidsDrawn : \E i \in DOMAIN parent.sides :
              arg = [fn |-> "Side", parent |-> parent, i |-> i]
       \/ \E s \in NumArgs : arg = [fn |-> "num", s |-> s]
    /\ ret = <<>>
    /\ cpc = "call"
    /\ IdleParser
    /\ IdleBrush
    /\ IdleMain

\* a == b
CallEq ==
    /\ cpc = "call" /\ arg.fn = "Vertex"
    /\ ret' = [eq |-> VertexEq(arg.a, arg.b)]
    /\ cpc' = "hash"
    /\ UNCHANGED <<arg, parserVars, brushVars, mainVars>>

\* hash(a), hash(b)
CallHash ==
    /\ cpc = "hash"
    /\ ret' = [eq |-> ret.eq, hash_a |-> VertexHash(arg.a), hash_b |-> VertexHash(arg.b)]
    /\ cpc' = "returned"
    /\ UNCHANGED <<arg, parserVars, brushVars, mainVars>>

\* side.compute_normal(), for the side arg.i of the solid arg.parent
CallComputeNormal ==
    /\ cpc = "call" /\ arg.fn = "Side"
    /\ ret' = [normal |-> compute_normal(arg.parent.sides[arg.i], arg.parent)]
    /\ cpc' = "type"
    /\ UNCHANGED <<arg, parserVars, brushVars, mainVars>>

\* side.get_surface_type()
CallSurfaceType ==
    /\ cpc = "type"
    /\ ret' = [normal |-> ret.normal,
               type |-> get_surface_type(arg.parent.sides[arg.i], arg.parent)]
    /\ cpc' = "flip"
    /\ UNCHANGED <<arg, parserVars, brushVars, mainVars>>

\* the vertices of the side are put in reverse order, in place, and
\* side.compute_normal() is called again
CallFlipped ==
    /\ cpc = "flip"
    /\ LET sd      == arg.parent.sides[arg.i]
           flipped == [sd EXCEPT !.vertices_plus = Reversed(@), !.plane = Reversed(@)]
           parent  == [arg.parent EXCEPT !.sides[arg.i] = flipped]
       IN  ret' = [normal |-> ret.normal, type |-> ret.type,
                   flipped |-> compute_normal(flipped, parent)]
    /\ cpc' = "returned"
    /\ UNCHANGED <<arg, parserVars, brushVars, mainVars>>

\* num(s)
CallNum ==
    /\ cpc = "call" /\ arg.fn = "num"
    /\ ret' = num(arg.s)
    /\ cpc' = "returned"
    /\ UNCHANGED <<arg, parserVars, brushVars, mainVars>>

NextCalls ==
    \/ CallNum
    \/ CallEq
    \/ CallHash
    \/ CallComputeNormal
    \/ CallSurfaceType
    \/ CallFlipped

SpecCalls == InitCalls /\ [][NextCalls]_vars

----------------------------------------------------------------------------
(* Properties of the functions *)

\* C12: equality and hash are consistent. When a == b under the tolerance
\* of 0.001 per axis, hash(a) == hash(b): the coordinates of a and b round
\* to the same 3 decimals on every axis.
C12_EqImpliesHash ==
    (cpc = "returned" /\ arg.fn = "Vertex" /\ ret.eq) => ret.hash_a = ret.hash_b

\* Two unit vectors [x, y, z, q] stand for the same vector.
SameUnit(u, v) == Cross(u, v) = Vertex(0, 0, 0) /\ Dot(u, v) > 0

\* C13: winding independence. For a face of a solid, compute_normal after
\* the face's vertices have been put in reverse order gives the normal it
\* gave for the original order (both None, or the same unit vector),
\* whatever the distance between the face's centre and the solid's centre.
C13_WindingIndependent ==
    (cpc = "returned" /\ arg.fn = "Side") =>
        \/ ret.normal = None /\ ret.flipped = None
        \/ ret.normal # None /\ ret.flipped # None /\ SameUnit(ret.normal[1], ret.flipped[1])

\* C14: classification. For every computed normal, with z = |normal.z|:
\* the label is wall exactly if z < 0.01; floor or ceiling exactly if
\* z >= 0.985; steep_slope or steep_ceiling_slope exactly if
\* 0.7 <= z < 0.985; ramp or ceiling_ramp exactly if 0.3 <= z < 0.7;
\* gentle_slope or gentle_ceiling_slope exactly if 0.01 <= z < 0.3; of each
\* pair the first is given exactly if normal.z > 0; and (0,0,1) is floor,
\* (0,0,-1) ceiling, (1,0,0) wall, a normal with z = 0.6 ramp and one with
\* z = 0.8 steep_slope.
C14_Classification ==
    (cpc \in {"flip", "returned"} /\ arg.fn = "Side" /\ ret.normal # None) =>
        LET u  == ret.normal[1]
            zz == u.z * u.z
            \* lo / 1000 <= z < hi / 1000
            Within(lo, hi) == 1000000 * zz >= lo * lo * u.q /\ 1000000 * zz < hi * hi * u.q
            up == u.z > 0
            t  == ret.type
        IN  /\ t = "wall" <=> Within(0, 10)
            /\ t \in {"floor", "ceiling"} <=> ~Within(0, 985)
            /\ t \in {"steep_slope", "steep_ceiling_slope"} <=> Within(700, 985)
            /\ t \in {"ramp", "ceiling_ramp"} <=> Within(300, 700)
            /\ t \in {"gentle_slope", "gentle_ceiling_slope"} <=> Within(10, 300)
            /\ t \in {"floor", "steep_slope", "ramp", "gentle_slope"} => up
            /\ t \in {"ceiling", "steep_ceiling_slope", "ceiling_ramp", "gentle_ceiling_slope"} => ~up
            /\ (u.x = 0 /\ u.y = 0 /\ u.z > 0) => t = "floor"
            /\ (u.x = 0 /\ u.y = 0 /\ u.z < 0) => t = "ceiling"
            /\ (u.y = 0 /\ u.z = 0 /\ u.x > 0) => t = "wall"
            /\ (u.z > 0 /\ 100 * zz = 36 * u.q) => t = "ramp"
            /\ (u.z > 0 /\ 100 * zz = 64 * u.q) => t = "steep_slope"

\* C14 witness: the face with the plane (0 0 0) (4 0 3) (0 1 0), whose
\* normal (-3, 0, 4) / 5 has z = 0.8, has been classified as steep_slope.
C14_Witness ==
    /\ cpc = "returned" /\ arg.fn = "Side"
    /\ ret.normal = Some([x |-> 0 - 3, y |-> 0, z |-> 4, q |-> 25])
    /\ ret.type = "steep_slope"

\* C15: num never fails its caller: for every argument (a number, an empty
\* value, numeric text, or text outside the numeric grammar) the call raises
\* nothing and returns a value, and for every non-empty text outside the
\* numeric grammar it returns 0.0 and logs the warning. The numeric grammar
\* is taken as widely as the code's own parsing takes it.
C15_NumNeverRaises ==
    (cpc = "returned" /\ arg.fn = "num") =>
        /\ ret.raised = None
        /\ ret.value # None
        /\ (arg.s.t = "str" /\ arg.s.v # <<>> /\ PyLiteral(arg.s.v, TRUE) = None)
               => (ret.value[1].m = 0 /\ ret.warned)
====
